---- MODULE Spec2Model ----
(***************************************************************************)
(* TTY session manager (tty_mcp_server.py): the TTYManager session store   *)
(* and the line-delimited JSON-RPC dispatch loop run_mcp_server.           *)
(*                                                                         *)
(* Strings whose length matters (command lines, captured output, the       *)
(* session buffer) are sequences of code points.  Labels and messages are  *)
(* sequences of pieces in which a session id is one piece.  A Python dict  *)
(* is an association list in insertion order.                              *)
(***************************************************************************)
EXTENDS Integers, Sequences, FiniteSets, TLC

(* ---------------- bounds ---------------- *)
\* time.time() ranges over StartTime..MaxTime
MaxTime == 2
\* a session accepts commands while commands_executed < MaxCommands
MaxCommands == 2
\* batch_terminate is called with explicit lists of at most MaxBatch ids
MaxBatch == 2

StartTime == 1

(* ---------------- Python values ---------------- *)
None == "None"
\* the local name id of run_mcp_server before its first assignment
Unbound == "unbound"

\* str(uuid.uuid4())[:8]: the values the generator can produce
Ids == {"0a0a0a0a", "1b1b1b1b"}
\* the "id" member of a request
ReqIds == {"r1", "r2"}

\* description argument of create_session
Descriptions == {<<>>, <<"d">>}

\* a code point outside ASCII (two bytes in UTF-8)
EAcute == "U+00E9"

\* command lines
Commands == {<<"l", "s">>}

\* url argument of create_browser_session
Urls == {None, "http://example.test"}

(* ---------------- strings ---------------- *)
RECURSIVE SumSeq(_)
SumSeq(s) == IF s = <<>> THEN 0 ELSE Head(s) + SumSeq(Tail(s))

RECURSIVE Count(_, _)
\* str.count(c) for a one-character c
Count(s, c) ==
    IF s = <<>> THEN 0
    ELSE (IF Head(s) = c THEN 1 ELSE 0) + Count(Tail(s), c)

RECURSIVE Join(_, _)
\* sep.join(parts)
Join(sep, parts) ==
    IF parts = <<>> THEN <<>>
    ELSE IF Len(parts) = 1 THEN parts[1]
    ELSE parts[1] \o sep \o Join(sep, Tail(parts))

Digit(n) == CASE n = 0 -> "0" [] n = 1 -> "1" [] n = 2 -> "2" [] n = 3 -> "3"
              [] n = 4 -> "4" [] n = 5 -> "5" [] n = 6 -> "6" [] n = 7 -> "7"
              [] n = 8 -> "8" [] n = 9 -> "9"

RECURSIVE NatToStr(_)
NatToStr(n) == IF n < 10 THEN <<Digit(n)>>
               ELSE NatToStr(n \div 10) \o <<Digit(n % 10)>>

\* str(n) for an int
IntToStr(n) == IF n < 0 THEN <<"-">> \o NatToStr(0 - n) ELSE NatToStr(n)

\* time.ctime() at epoch second t (UTC, t < 60)
CTime(t) ==
    <<"T", "h", "u", " ", "J", "a", "n", " ", " ", "1", " ",
      "0", "0", ":", "0", "0", ":">>
    \o (IF t < 10 THEN <<"0">> ELSE <<>>) \o NatToStr(t)
    \o <<" ", "1", "9", "7", "0">>

CommandLabel == <<"C", "o", "m", "m", "a", "n", "d", ":", " ">>
ReturnCodeLabel ==
    <<"R", "e", "t", "u", "r", "n", " ", "c", "o", "d", "e", ":", " ">>
TimestampLabel ==
    <<"T", "i", "m", "e", "s", "t", "a", "m", "p", ":", " ">>
StdoutLabel == <<"S", "T", "D", "O", "U", "T", ":", "\n">>
StderrLabel == <<"S", "T", "D", "E", "R", "R", ":", "\n">>

(* ---------------- dict ---------------- *)
\* list(d.keys())
Keys(d) == [i \in 1..Len(d) |-> d[i].key]
KeySet(d) == {d[i].key : i \in 1..Len(d)}
\* k in d
Has(d, k) == k \in KeySet(d)
\* d[k]
Get(d, k) == d[CHOOSE i \in 1..Len(d) : d[i].key = k].val
\* d[k] = v : an existing key keeps its position
Put(d, k, v) ==
    IF Has(d, k)
    THEN [i \in 1..Len(d) |-> IF d[i].key = k THEN [key |-> k, val |-> v]
                                               ELSE d[i]]
    ELSE Append(d, [key |-> k, val |-> v])
\* del d[k]
Del(d, k) == SelectSeq(d, LAMBDA e : e.key # k)

(* ---------------- sessions ---------------- *)
ACTIVE == "active"
TERMINATED == "terminated"

\* SessionStats that starts last_activity at the creation time
SessionStats_stamped(now) ==
    [lines_written |-> 0, bytes_written |-> 0, commands_executed |-> 0,
     last_activity |-> now, created_at |-> now]

\* SessionStats(created_at=time.time())
SessionStats(now) ==
    [lines_written |-> 0, bytes_written |-> 0, commands_executed |-> 0,
     last_activity |-> 0, created_at |-> now]

\* TTYSession(session_id=..., description=...) with __post_init__
TTYSession(session_id, description, now) ==
    [session_id |-> session_id, status |-> ACTIVE,
     stats |-> SessionStats(now), buffer |-> <<>>,
     description |-> description]

\* f"Session {session_id} not found"
NotFoundMessage(session_id) == <<"Session ", session_id, " not found">>

(* ---------------- command runner ---------------- *)
\* what subprocess.run(command, shell=True, capture_output=True, text=True,
\* timeout=30) can do: return a CompletedProcess, raise TimeoutExpired, or
\* raise another exception
Completed(returncode, stdout, stderr) ==
    [returncode |-> returncode, stdout |-> stdout, stderr |-> stderr,
     kind |-> "completed"]
TimeoutExpired == [kind |-> "timeout"]
RunError == [kind |-> "error", detail |-> <<"OSError">>]

\* echo hi
EchoHi == Completed(0, <<"h", "i", "\n">>, <<>>)
\* a command that prints a non-ASCII character, complains and exits with 1
Complains == Completed(1, <<EAcute>>, <<"n", "o", "\n">>)

RunOutcomes == {EchoHi, Complains, TimeoutExpired, RunError}

(* ---------------- TTYManager ---------------- *)
\* Every method yields [sessions, ret, exc]: the store afterwards, the value
\* returned, and the exception that escaped the method (None when it
\* returned).
Return(sessions, ret) == [sessions |-> sessions, ret |-> ret, exc |-> None]
Raise(sessions, exc) == [sessions |-> sessions, ret |-> None, exc |-> exc]

create_session(sessions, session_id, description, now) ==
    LET session == TTYSession(session_id,
                              IF description # <<>> THEN description
                              ELSE <<"Session-", session_id>>,
                              now)
    IN Return(Put(sessions, session_id, session),
              [success |-> TRUE, session_id |-> session_id,
               description |-> description,
               message |-> "TTY session created successfully"])

\* the text stored in session.buffer
FormatOutput(command, run, now) ==
    LET output_lines ==
            << CommandLabel \o command,
               ReturnCodeLabel \o IntToStr(run.returncode),
               TimestampLabel \o CTime(now) >>
            \o (IF run.stdout # <<>> THEN <<StdoutLabel \o run.stdout>>
                ELSE <<>>)
            \o (IF run.stderr # <<>> THEN <<StderrLabel \o run.stderr>>
                ELSE <<>>)
    IN Join(<<"\n">>, output_lines)

\* execute_command that counts the command before the runner has returned
execute_command_counts_first(sessions, session_id, command, run, now) ==
    IF ~Has(sessions, session_id)
    THEN Return(sessions,
                [success |-> FALSE, error |-> NotFoundMessage(session_id)])
    ELSE
      LET session == Get(sessions, session_id)
          counted == Put(sessions, session_id,
                         [session EXCEPT !.stats.commands_executed = @ + 1,
                                         !.stats.last_activity = now])
      IN IF run.kind = "timeout"
         THEN Return(counted,
                     [success |-> FALSE, error |-> <<"Command timeout">>])
         ELSE IF run.kind = "error"
         THEN Return(counted, [success |-> FALSE, error |-> run.detail])
         ELSE
           LET output == FormatOutput(command, run, now)
               stats == [Get(counted, session_id).stats EXCEPT
                           !.bytes_written = Len(output),
                           !.lines_written = Count(output, "\n") + 1]
           IN Return(Put(counted, session_id,
                         [session EXCEPT !.stats = stats,
                                         !.buffer = output]),
                     [success |-> TRUE, session_id |-> session_id,
                      command |-> command, output |-> output,
                      return_code |-> run.returncode])

execute_command(sessions, session_id, command, run, now) ==
    IF ~Has(sessions, session_id)
    THEN Return(sessions,
                [success |-> FALSE, error |-> NotFoundMessage(session_id)])
    ELSE IF run.kind = "timeout"
    THEN Return(sessions,
                [success |-> FALSE, error |-> <<"Command timeout">>])
    ELSE IF run.kind = "error"
    THEN Return(sessions, [success |-> FALSE, error |-> run.detail])
    ELSE
      LET session == Get(sessions, session_id)
          output == FormatOutput(command, run, now)
          stats == [session.stats EXCEPT
                      !.commands_executed = @ + 1,
                      !.last_activity = now,
                      !.bytes_written = Len(output),
                      !.lines_written = Count(output, "\n") + 1]
      IN Return(Put(sessions, session_id,
                    [session EXCEPT !.stats = stats, !.buffer = output]),
                [success |-> TRUE, session_id |-> session_id,
                 command |-> command, output |-> output,
                 return_code |-> run.returncode])

get_session_stats(sessions, session_id, now) ==
    IF ~Has(sessions, session_id)
    THEN Return(sessions, [error |-> NotFoundMessage(session_id)])
    ELSE
      LET session == Get(sessions, session_id)
          stats == session.stats
      IN Return(sessions,
                [session_id |-> session_id,
                 description |-> session.description,
                 status |-> session.status,
                 stats |->
                   [lines_written |-> stats.lines_written,
                    bytes_written |-> stats.bytes_written,
                    commands_executed |-> stats.commands_executed,
                    uptime_seconds |-> now - stats.created_at,
                    last_activity_seconds |-> now - stats.last_activity]])

get_session(sessions, session_id, now) ==
    get_session_stats(sessions, session_id, now)

list_sessions(sessions, now) ==
    Return(sessions,
           [i \in 1..Len(sessions) |->
               get_session_stats(sessions, sessions[i].key, now).ret])

\* terminate_session that marks the record and leaves it in the store
terminate_session_keeps(sessions, session_id) ==
    IF ~Has(sessions, session_id)
    THEN Return(sessions,
                [success |-> FALSE, error |-> NotFoundMessage(session_id)])
    ELSE Return(Put(sessions, session_id,
                    [Get(sessions, session_id) EXCEPT !.status = TERMINATED]),
                [success |-> TRUE, session_id |-> session_id])

terminate_session(sessions, session_id) ==
    IF ~Has(sessions, session_id)
    THEN Return(sessions,
                [success |-> FALSE, error |-> NotFoundMessage(session_id)])
    ELSE
      LET session == Get(sessions, session_id)
          marked == Put(sessions, session_id,
                        [session EXCEPT !.status = TERMINATED])
      IN Return(Del(marked, session_id),
                [success |-> TRUE, session_id |-> session_id])

\* an optional list argument: a list, or None when it is omitted
Given(value) == [value |-> value, given |-> TRUE]
Omitted == [value |-> <<>>, given |-> FALSE]

RECURSIVE BatchLoop(_, _, _)
\* the for loop of batch_terminate: [sessions, results] after the ids
BatchLoop(sessions, session_ids, results) ==
    IF session_ids = <<>>
    THEN [sessions |-> sessions, results |-> results]
    ELSE LET t == terminate_session(sessions, Head(session_ids))
         IN BatchLoop(t.sessions, Tail(session_ids),
                      Put(results, Head(session_ids), t.ret))

\* batch_terminate that reads an omitted list as the empty list
batch_terminate_no_snapshot(sessions, session_ids) ==
    LET done == BatchLoop(sessions, session_ids.value, <<>>)
        results == done.results
    IN Return(done.sessions,
              [success |-> TRUE,
               terminated_count |->
                   Len(SelectSeq(results, LAMBDA r : r.val.success)),
               details |-> results])

batch_terminate(sessions, session_ids) ==
    LET ids == IF session_ids.given THEN session_ids.value
               ELSE Keys(sessions)
        done == BatchLoop(sessions, ids, <<>>)
        results == done.results
    IN Return(done.sessions,
              [success |-> TRUE,
               terminated_count |->
                   Len(SelectSeq(results, LAMBDA r : r.val.success)),
               details |-> results])

\* get_summary_stats that sums lines_written into total_bytes
get_summary_stats_sums_lines(sessions, now) ==
    LET listed == list_sessions(sessions, now).ret
        n == Len(listed)
    IN Return(sessions,
         [total_sessions |-> n,
          active_sessions |-> n,
          total_commands |->
              SumSeq([i \in 1..n |-> listed[i].stats.commands_executed]),
          total_bytes |->
              SumSeq([i \in 1..n |-> listed[i].stats.lines_written]),
          total_lines |->
              SumSeq([i \in 1..n |-> listed[i].stats.lines_written]),
          session_details |-> listed])

get_summary_stats(sessions, now) ==
    LET listed == list_sessions(sessions, now).ret
        n == Len(listed)
    IN Return(sessions,
         [total_sessions |-> n,
          active_sessions |-> n,
          total_commands |->
              SumSeq([i \in 1..n |-> listed[i].stats.commands_executed]),
          total_bytes |->
              SumSeq([i \in 1..n |-> listed[i].stats.bytes_written]),
          total_lines |->
              SumSeq([i \in 1..n |-> listed[i].stats.lines_written]),
          session_details |-> listed])

\* read_all_sessions that empties each buffer it has read
read_all_sessions_drains(sessions) ==
    Return([i \in 1..Len(sessions) |->
              [sessions[i] EXCEPT !.val.buffer = <<>>]],
           [i \in 1..Len(sessions) |->
              [key |-> sessions[i].key,
               val |-> [description |-> sessions[i].val.description,
                        content |-> sessions[i].val.buffer,
                        lines |-> sessions[i].val.stats.lines_written,
                        bytes |-> sessions[i].val.stats.bytes_written]]])

read_all_sessions(sessions) ==
    Return(sessions,
           [i \in 1..Len(sessions) |->
              [key |-> sessions[i].key,
               val |-> [description |-> sessions[i].val.description,
                        content |-> sessions[i].val.buffer,
                        lines |-> sessions[i].val.stats.lines_written,
                        bytes |-> sessions[i].val.stats.bytes_written]]])

\* psutil.getloadavg(), virtual_memory(), disk_usage('/'): the host either
\* answers or the call raises
MetricsOutcomes == {"available", "raises"}

health_check(sessions, now, metrics) ==
    LET listed == list_sessions(sessions, now).ret
    IN IF metrics = "raises"
       THEN Raise(sessions, "OSError")
       ELSE Return(sessions,
                   [status |-> "healthy", timestamp |-> now,
                    active_sessions |-> Len(listed),
                    system_load |-> "loadavg",
                    memory_usage |-> "percent",
                    disk_usage |-> "percent"])

\* uuid.uuid4()[:8]: uuid.UUID defines no __getitem__, so the subscript
\* raises TypeError
UuidSubscript == [exc |-> "TypeError", val |-> None]

create_browser_session(sessions, url, session_id, run, now) ==
    LET label == UuidSubscript
    IN IF label.exc # None
       THEN Return(sessions,
                   [success |-> FALSE,
                    error |-> <<"Failed to create browser session: ",
                                "'UUID' object is not subscriptable">>])
       ELSE
         LET created == create_session(sessions, session_id,
                                       <<"Browser-", label.val>>, now)
             fetched == IF url # None
                        THEN execute_command(created.sessions, session_id,
                                 <<"l", "y", "n", "x", " ", url>>, run, now)
                        ELSE created
         IN Return(fetched.sessions,
                   [success |-> TRUE, session_id |-> session_id,
                    type |-> "browser", url |-> url,
                    message |-> IF url # None
                                THEN <<"Browser session created for ", url>>
                                ELSE <<"Browser session created">>])

(* ---------------- run_mcp_server ---------------- *)
VARIABLES
    sessions,   \* tty_manager.sessions
    clock,      \* time.time()
    pc,         \* "reading" at readline, "stopped" after the break; in
                \* SpecSteps also "running" and "updating"
    id,         \* the local name id of run_mcp_server
    line,       \* the input line handled by the latest iteration
    world,      \* what the collaborators did during that iteration
    result,     \* the value the TTYManager call of that iteration returned
    fault,      \* the exception raised while handling the line, or None
    frame,      \* the frame that iteration wrote to stdout
    issued      \* every session id create_session has stored so far

vars == <<sessions, clock, pc, id, line, world, result, fault, frame, issued>>

MethodNotFound == 0 - 32601
InternalError == 0 - 32603

ResultFrame(rid) == [kind |-> "result", id |-> rid, code |-> 0]
ErrorFrame(rid, code) == [kind |-> "error", id |-> rid, code |-> code]
NoFrame == [kind |-> "none", id |-> None, code |-> 0]

\* a line that json.loads turns into a dict; id is request.get("id"), None
\* when the request has no id member
Request(method, rid, name, arguments) ==
    [id |-> rid, method |-> method, name |-> name, arguments |-> arguments,
     json |-> "object"]
ToolCall(rid, name, arguments) == Request("tools/call", rid, name, arguments)
\* a line json.loads rejects
InvalidJson ==
    [id |-> None, method |-> None, name |-> None, arguments |-> None,
     json |-> "invalid"]
\* a line json.loads turns into a list, a number, a string or null
NonObject ==
    [id |-> None, method |-> None, name |-> None, arguments |-> None,
     json |-> "nonobject"]
\* readline() returned the empty string
EndOfFile ==
    [id |-> None, method |-> None, name |-> None, arguments |-> None,
     json |-> "eof"]

NoArguments == [unused |-> None]
Quiet == [run |-> None, metrics |-> None, uuid |-> None]

RECURSIVE IdLists(_)
\* the lists of at most n session ids
IdLists(n) ==
    IF n = 0 THEN {<<>>}
    ELSE IdLists(n - 1)
         \cup {Append(l, x) : l \in IdLists(n - 1), x \in Ids}

\* The inputs a run of the server is fed: the request ids, the descriptions,
\* what the command runner does, the length of explicit id lists, and how
\* far the clock moves between two readings.  StoreInputs varies the runner,
\* the clock and the id lists; DispatchInputs varies the requests.
StoreInputs ==
    [rids |-> {"r1"}, descriptions |-> {<<>>},
     runs |-> RunOutcomes \ {EchoHi},
     batch |-> MaxBatch, ticks |-> {0, 1}]
DispatchInputs ==
    [rids |-> ReqIds \cup {None}, descriptions |-> Descriptions,
     runs |-> {EchoHi, TimeoutExpired},
     batch |-> 1, ticks |-> {0}]

\* time.time() when the handler reads it
Times(in) == {clock + d : d \in in.ticks} \cap StartTime..MaxTime

Init ==
    /\ sessions = <<>>
    /\ clock = StartTime
    /\ pc = "reading"
    /\ id = Unbound
    /\ line = EndOfFile
    /\ world = Quiet
    /\ result = None
    /\ fault = None
    /\ frame = NoFrame
    /\ issued = {}

\* an iteration whose tool exception ends the loop
Dispatch_crashes(ln, now, w, call) ==
    /\ pc = "reading"
    /\ pc' = IF call.exc = None THEN pc ELSE "stopped"
    /\ line' = ln
    /\ clock' = now
    /\ world' = w
    /\ id' = ln.id
    /\ sessions' = call.sessions
    /\ result' = call.ret
    /\ fault' = call.exc
    /\ frame' = IF call.exc = None THEN ResultFrame(ln.id) ELSE NoFrame

\* one iteration for a tools/call request whose tool ran as call
Dispatch(ln, now, w, call) ==
    /\ pc = "reading"
    /\ pc' = pc
    /\ line' = ln
    /\ clock' = now
    /\ world' = w
    /\ id' = ln.id
    /\ sessions' = call.sessions
    /\ result' = call.ret
    /\ fault' = call.exc
    /\ frame' = IF call.exc = None THEN ResultFrame(ln.id)
                ELSE ErrorFrame(ln.id, InternalError)

\* one iteration that calls no tool and answers with fr
Answer(ln, fr) ==
    /\ pc = "reading"
    /\ pc' = pc
    /\ line' = ln
    /\ world' = Quiet
    /\ id' = ln.id
    /\ result' = None
    /\ fault' = None
    /\ frame' = fr
    /\ UNCHANGED <<sessions, clock, issued>>

EndOfInput ==
    /\ pc = "reading"
    /\ pc' = "stopped"
    /\ line' = EndOfFile
    /\ world' = Quiet
    /\ result' = None
    /\ fault' = None
    /\ frame' = NoFrame
    /\ UNCHANGED <<sessions, clock, id, issued>>

\* an invalid line answered with a parse-error frame
InvalidJsonLine_answers ==
    /\ pc = "reading"
    /\ line' = InvalidJson
    /\ world' = Quiet
    /\ result' = None
    /\ fault' = "JSONDecodeError"
    /\ frame' = ErrorFrame(None, 0 - 32700)
    /\ UNCHANGED <<sessions, clock, pc, id, issued>>

InvalidJsonLine ==
    /\ pc = "reading"
    /\ line' = InvalidJson
    /\ world' = Quiet
    /\ result' = None
    /\ fault' = "JSONDecodeError"
    /\ frame' = NoFrame
    /\ UNCHANGED <<sessions, clock, pc, id, issued>>

\* request.get raises AttributeError before id is assigned
NonObjectLine ==
    /\ pc = "reading"
    /\ line' = NonObject
    /\ world' = Quiet
    /\ result' = None
    /\ fault' = "AttributeError"
    /\ frame' = ErrorFrame(IF id = Unbound THEN None ELSE id, InternalError)
    /\ UNCHANGED <<sessions, clock, pc, id, issued>>

Initialize(in) ==
    \E rid \in in.rids :
        Answer(Request("initialize", rid, None, NoArguments),
               ResultFrame(rid))

ToolsList(in) ==
    \E rid \in in.rids :
        Answer(Request("tools/list", rid, None, NoArguments),
               ResultFrame(rid))

NotificationsInitialized(in) ==
    \E rid \in in.rids :
        Answer(Request("notifications/initialized", rid, None, NoArguments),
               NoFrame)

Ping(in) ==
    \E rid \in in.rids :
        Answer(Request("ping", rid, None, NoArguments), ResultFrame(rid))

UnknownMethod(in) ==
    \E rid \in in.rids :
        Answer(Request("resources/list", rid, None, NoArguments),
               ErrorFrame(rid, MethodNotFound))

(* ---------------- tools/call ---------------- *)
CallCreateSession(in) ==
    \E rid \in in.rids, now \in Times(in),
       description \in in.descriptions, session_id \in Ids :
        /\ Dispatch(ToolCall(rid, "create_session",
                             [description |-> description]),
                    now, [Quiet EXCEPT !.uuid = session_id],
                    create_session(sessions, session_id, description, now))
        /\ issued' = issued \cup {session_id}

CallExecuteCommand(in) ==
    \E rid \in in.rids, now \in Times(in),
       session_id \in Ids, command \in Commands :
      \E run \in (IF Has(sessions, session_id) THEN in.runs ELSE {None}) :
        /\ Has(sessions, session_id) =>
             Get(sessions, session_id).stats.commands_executed < MaxCommands
        /\ Dispatch(ToolCall(rid, "execute_command",
                             [session_id |-> session_id,
                              command |-> command]),
                    now, [Quiet EXCEPT !.run = run],
                    execute_command(sessions, session_id, command, run, now))
        /\ UNCHANGED issued

CallGetSessionStats(in) ==
    \E rid \in in.rids, now \in Times(in), session_id \in Ids :
        /\ Dispatch(ToolCall(rid, "get_session_stats",
                             [session_id |-> session_id]),
                    now, Quiet, get_session_stats(sessions, session_id, now))
        /\ UNCHANGED issued

CallGetSession(in) ==
    \E rid \in in.rids, now \in Times(in), session_id \in Ids :
        /\ Dispatch(ToolCall(rid, "get_session",
                             [session_id |-> session_id]),
                    now, Quiet, get_session(sessions, session_id, now))
        /\ UNCHANGED issued

CallListSessions(in) ==
    \E rid \in in.rids, now \in Times(in) :
        /\ Dispatch(ToolCall(rid, "list_sessions", NoArguments),
                    now, Quiet, list_sessions(sessions, now))
        /\ UNCHANGED issued

CallTerminateSession(in) ==
    \E rid \in in.rids, session_id \in Ids :
        /\ Dispatch(ToolCall(rid, "terminate_session",
                             [session_id |-> session_id]),
                    clock, Quiet, terminate_session(sessions, session_id))
        /\ UNCHANGED issued

CallBatchTerminate(in) ==
    \E rid \in in.rids,
       session_ids \in {Given(l) : l \in IdLists(in.batch)} \cup {Omitted} :
        /\ Dispatch(ToolCall(rid, "batch_terminate",
                             [session_ids |-> session_ids]),
                    clock, Quiet, batch_terminate(sessions, session_ids))
        /\ UNCHANGED issued

CallGetSummary(in) ==
    \E rid \in in.rids, now \in Times(in) :
        /\ Dispatch(ToolCall(rid, "get_summary", NoArguments),
                    now, Quiet, get_summary_stats(sessions, now))
        /\ UNCHANGED issued

CallReadAllSessions(in) ==
    \E rid \in in.rids :
        /\ Dispatch(ToolCall(rid, "read_all_sessions", NoArguments),
                    clock, Quiet, read_all_sessions(sessions))
        /\ UNCHANGED issued

CallCreateBrowser(in) ==
    \E rid \in in.rids, url \in Urls,
       now \in (IF UuidSubscript.exc = None THEN Times(in) ELSE {clock}),
       session_id \in (IF UuidSubscript.exc = None THEN Ids ELSE {None}) :
      \E run \in (IF UuidSubscript.exc = None /\ url # None THEN in.runs
                  ELSE {None}) :
        LET call == create_browser_session(sessions, url, session_id, run,
                                           now)
        IN /\ Dispatch(ToolCall(rid, "create_browser", [url |-> url]),
                       now,
                       [Quiet EXCEPT !.uuid = session_id, !.run = run],
                       call)
           /\ issued' = IF call.ret.success THEN issued \cup {session_id}
                        ELSE issued

CallHealthCheck(in) ==
    \E rid \in in.rids, now \in Times(in), metrics \in MetricsOutcomes :
        /\ Dispatch(ToolCall(rid, "health_check", NoArguments),
                    now, [Quiet EXCEPT !.metrics = metrics],
                    health_check(sessions, now, metrics))
        /\ UNCHANGED issued

CallUnknownTool(in) ==
    \E rid \in in.rids :
        /\ Dispatch(ToolCall(rid, "no_such_tool", NoArguments),
                    clock, Quiet,
                    Return(sessions,
                           [error |-> <<"Unknown tool: ", "no_such_tool">>]))
        /\ UNCHANGED issued

\* the tools whose call subscripts arguments["session_id"]
NeedSessionId ==
    {"execute_command", "get_session_stats", "get_session",
     "terminate_session"}

\* arguments["session_id"] raises KeyError
CallMissingArgument(in) ==
    \E rid \in in.rids, name \in NeedSessionId :
        /\ Dispatch(ToolCall(rid, name, NoArguments),
                    clock, Quiet, Raise(sessions, "KeyError"))
        /\ UNCHANGED issued

\* one iteration of the while loop
Serve(in) ==
    \/ EndOfInput
    \/ InvalidJsonLine
    \/ NonObjectLine
    \/ Initialize(in)
    \/ ToolsList(in)
    \/ NotificationsInitialized(in)
    \/ Ping(in)
    \/ UnknownMethod(in)
    \/ CallCreateSession(in)
    \/ CallExecuteCommand(in)
    \/ CallGetSessionStats(in)
    \/ CallGetSession(in)
    \/ CallListSessions(in)
    \/ CallTerminateSession(in)
    \/ CallBatchTerminate(in)
    \/ CallGetSummary(in)
    \/ CallReadAllSessions(in)
    \/ CallCreateBrowser(in)
    \/ CallMissingArgument(in)
    \/ CallHealthCheck(in)
    \/ CallUnknownTool(in)

Next == Serve(StoreInputs)

Spec == Init /\ [][Next]_vars

NextDispatch == Serve(DispatchInputs)

SpecDispatch == Init /\ [][NextDispatch]_vars

(* ---------------- execute_command, statement by statement ---------------- *)
\* The same loop with the handler of execute_command taken in the steps of
\* lines 66-113: the call of subprocess.run, the update of the counters and
\* the update of the buffer.  pc is "running" while subprocess.run has not
\* returned and "updating" between the two updates.
StepInputs ==
    [rids |-> {"r1"}, descriptions |-> {<<>>},
     runs |-> {EchoHi, TimeoutExpired},
     batch |-> 1, ticks |-> {0, 1}]

\* execute_command for an id that is not in the store
ExecuteUnknownSession(in) ==
    \E rid \in in.rids, session_id \in Ids, command \in Commands :
        /\ ~Has(sessions, session_id)
        /\ Dispatch(ToolCall(rid, "execute_command",
                             [session_id |-> session_id,
                              command |-> command]),
                    clock, Quiet,
                    execute_command(sessions, session_id, command, None,
                                    clock))
        /\ UNCHANGED issued

\* the loop reads an execute_command request and calls subprocess.run
ExecuteBegin(in) ==
    \E rid \in in.rids, session_id \in Ids, command \in Commands :
        /\ pc = "reading"
        /\ Has(sessions, session_id)
        /\ Get(sessions, session_id).stats.commands_executed < MaxCommands
        /\ pc' = "running"
        /\ line' = ToolCall(rid, "execute_command",
                            [session_id |-> session_id, command |-> command])
        /\ id' = rid
        /\ world' = Quiet
        /\ result' = None
        /\ fault' = None
        /\ frame' = NoFrame
        /\ UNCHANGED <<sessions, clock, issued>>

\* subprocess.run raises: the except clauses return the failure
ExecuteFails(in) ==
    \E run \in {r \in in.runs : r.kind # "completed"} :
        /\ pc = "running"
        /\ pc' = "reading"
        /\ world' = [Quiet EXCEPT !.run = run]
        /\ result' = execute_command(sessions, line.arguments.session_id,
                                     line.arguments.command, run, clock).ret
        /\ fault' = None
        /\ frame' = ResultFrame(line.id)
        /\ UNCHANGED <<sessions, clock, id, line, issued>>

\* an execution that answers as soon as it has counted the command
ExecuteCounts_returns(in) ==
    \E run \in {r \in in.runs : r.kind = "completed"}, now \in Times(in) :
        LET session_id == line.arguments.session_id
            session == Get(sessions, session_id)
        IN /\ pc = "running"
           /\ pc' = "reading"
           /\ world' = [Quiet EXCEPT !.run = run]
           /\ clock' = now
           /\ sessions' = Put(sessions, session_id,
                              [session EXCEPT
                                 !.stats.commands_executed = @ + 1,
                                 !.stats.last_activity = now])
           /\ frame' = ResultFrame(line.id)
           /\ UNCHANGED <<id, line, result, fault, issued>>

\* subprocess.run returns: commands_executed and last_activity are updated
ExecuteCounts(in) ==
    \E run \in {r \in in.runs : r.kind = "completed"}, now \in Times(in) :
        LET session_id == line.arguments.session_id
            session == Get(sessions, session_id)
        IN /\ pc = "running"
           /\ pc' = "updating"
           /\ world' = [Quiet EXCEPT !.run = run]
           /\ clock' = now
           /\ sessions' = Put(sessions, session_id,
                              [session EXCEPT
                                 !.stats.commands_executed = @ + 1,
                                 !.stats.last_activity = now])
           /\ UNCHANGED <<id, line, result, fault, frame, issued>>

\* the output is built and stored, and the handler answers
ExecuteStores ==
    /\ pc = "updating"
    /\ LET session_id == line.arguments.session_id
           command == line.arguments.command
           session == Get(sessions, session_id)
           output == FormatOutput(command, world.run, clock)
       IN /\ sessions' = Put(sessions, session_id,
                             [session EXCEPT
                                !.buffer = output,
                                !.stats.bytes_written = Len(output),
                                !.stats.lines_written
                                    = Count(output, "\n") + 1])
          /\ result' = [success |-> TRUE, session_id |-> session_id,
                        command |-> command, output |-> output,
                        return_code |-> world.run.returncode]
    /\ pc' = "reading"
    /\ fault' = None
    /\ frame' = ResultFrame(line.id)
    /\ UNCHANGED <<clock, id, line, world, issued>>

\* one step of the loop
ServeSteps(in) ==
    \/ EndOfInput
    \/ InvalidJsonLine
    \/ NonObjectLine
    \/ Initialize(in)
    \/ ToolsList(in)
    \/ NotificationsInitialized(in)
    \/ Ping(in)
    \/ UnknownMethod(in)
    \/ CallCreateSession(in)
    \/ ExecuteUnknownSession(in)
    \/ ExecuteBegin(in)
    \/ ExecuteFails(in)
    \/ ExecuteCounts(in)
    \/ ExecuteStores
    \/ CallGetSessionStats(in)
    \/ CallGetSession(in)
    \/ CallListSessions(in)
    \/ CallTerminateSession(in)
    \/ CallBatchTerminate(in)
    \/ CallGetSummary(in)
    \/ CallReadAllSessions(in)
    \/ CallCreateBrowser(in)
    \/ CallMissingArgument(in)
    \/ CallHealthCheck(in)
    \/ CallUnknownTool(in)

NextSteps == ServeSteps(StepInputs)

SpecSteps == Init /\ [][NextSteps]_vars


(* ---------------- properties ---------------- *)
\* the line is a tools/call of the tool name
Called(ln, name) == ln.method = "tools/call" /\ ln.name = name
\* the line is a tools/call of name that passes a session_id
CalledWithId(ln, name) ==
    Called(ln, name) /\ "session_id" \in DOMAIN ln.arguments
\* the payload r says that session_id is not in the store
ReportsNotFound(r, session_id) ==
    /\ "error" \in DOMAIN r
    /\ r.error = NotFoundMessage(session_id)
    /\ "success" \in DOMAIN r => ~r.success

\* C1: terminate_session on an id in the store answers success and removes
\* the record; get_session_stats, execute_command and terminate_session on
\* an id that is not in the store answer "not found"; a second
\* terminate_session right after a successful one on the same id answers
\* "not found".
TerminateThenNotFound ==
    [][ /\ \A sid \in Ids :
            (CalledWithId(line', "terminate_session")
               /\ line'.arguments.session_id = sid /\ Has(sessions, sid))
            => /\ result'.success
               /\ result'.session_id = sid
               /\ ~Has(sessions', sid)
               /\ Len(sessions') = Len(sessions) - 1
        /\ \A sid \in Ids :
            \A name \in {"get_session_stats", "execute_command",
                         "terminate_session"} :
              (CalledWithId(line', name)
                 /\ line'.arguments.session_id = sid /\ ~Has(sessions, sid))
              => ReportsNotFound(result', sid)
        /\ (CalledWithId(line, "terminate_session") /\ line' = line
              /\ fault = None /\ result.success)
            => ReportsNotFound(result', line.arguments.session_id)
      ]_vars

\* a terminate_session answered "not found" for an id that had a session
TerminatedTwice ==
    /\ CalledWithId(line, "terminate_session")
    /\ line.arguments.session_id \in issued
    /\ ~Has(sessions, line.arguments.session_id)
    /\ ~result.success

\* C2: an execute_command on a session of the store whose runner timed out
\* or raised leaves every record of the store as it was and answers
\* success false.
FailedExecutionInvisible ==
    [][ (/\ CalledWithId(line', "execute_command")
         /\ Has(sessions, line'.arguments.session_id)
         /\ world'.run.kind \in {"timeout", "error"})
        => (sessions' = sessions /\ ~result'.success) ]_vars

\* a timeout against a session that has already executed a command
TimedOutAfterSuccess ==
    /\ CalledWithId(line, "execute_command")
    /\ Has(sessions, line.arguments.session_id)
    /\ world.run.kind = "timeout"
    /\ Get(sessions, line.arguments.session_id).stats.commands_executed > 0

\* bytes of one code point in UTF-8
Utf8Width(c) == IF c = EAcute THEN 2 ELSE 1

RECURSIVE ByteLength(_)
\* the length of a text in bytes, encoded as UTF-8
ByteLength(s) ==
    IF s = <<>> THEN 0 ELSE Utf8Width(Head(s)) + ByteLength(Tail(s))

\* the number of newline-separated lines of a text
LineCount(s) == Count(s, "\n") + 1

\* C3: a session that has executed a command has bytes_written equal to the
\* byte length of its buffer and lines_written equal to its line count.
BytesAndLinesMatchBuffer ==
    \A i \in 1..Len(sessions) :
        sessions[i].val.stats.commands_executed > 0
        => /\ sessions[i].val.stats.bytes_written
                = ByteLength(sessions[i].val.buffer)
           /\ sessions[i].val.stats.lines_written
                = LineCount(sessions[i].val.buffer)

\* C4: create_browser answers success true with type "browser" and the new
\* session is in the store.
BrowserSessionCreated ==
    Called(line, "create_browser")
    => /\ fault = None
       /\ result.success
       /\ result.type = "browser"
       /\ Has(sessions, result.session_id)

\* C5: batch_terminate without ids empties the store and reports exactly the
\* ids that were in it, each a success, with terminated_count their number.
BatchTerminateAll ==
    [][ (Called(line', "batch_terminate")
           /\ ~line'.arguments.session_ids.given)
        => /\ sessions' = <<>>
           /\ Keys(result'.details) = Keys(sessions)
           /\ \A i \in 1..Len(result'.details) :
                 result'.details[i].val.success
           /\ result'.terminated_count = Len(sessions) ]_vars

\* a batch_terminate without ids that removed two sessions
BatchTerminatedTwo ==
    /\ Called(line, "batch_terminate")
    /\ ~line.arguments.session_ids.given
    /\ result.terminated_count = 2
    /\ sessions = <<>>

\* the ids of a list
Range(l) == {l[i] : i \in 1..Len(l)}

\* C6: batch_terminate with an explicit list removes every listed id that
\* was in the store, reports every listed id that was not as "not found",
\* and its terminated_count is the number of sessions it removed.
BatchTerminateCountsRemoved ==
    [][ (Called(line', "batch_terminate")
           /\ line'.arguments.session_ids.given)
        => LET ids == Range(line'.arguments.session_ids.value)
           IN /\ KeySet(sessions') = KeySet(sessions) \ ids
              /\ \A sid \in ids \ KeySet(sessions) :
                    ReportsNotFound(Get(result'.details, sid), sid)
              /\ result'.terminated_count = Len(sessions) - Len(sessions')
      ]_vars

\* C7: create_session never stores a session under an id that is in the
\* store or that an earlier session had.
SessionIdsNeverReused ==
    [][ Called(line', "create_session")
        => /\ result'.session_id \notin issued
           /\ ~Has(sessions, result'.session_id) ]_vars

\* C8: execute_command, get_session_stats, get_session and
\* terminate_session answer an id that is not in the store with success
\* false and the error "Session <id> not found", and leave the store alone.
NotFoundIsStructured ==
    [][ \A name \in NeedSessionId :
          (CalledWithId(line', name)
             /\ ~Has(sessions, line'.arguments.session_id))
          => /\ fault' = None
             /\ "success" \in DOMAIN result'
             /\ ~result'.success
             /\ result'.error = NotFoundMessage(line'.arguments.session_id)
             /\ sessions' = sessions ]_vars

\* C9: an internal-error frame carries the id of the line that caused the
\* fault, null when that line has none.
InternalErrorCarriesOwnId ==
    (frame.kind = "error" /\ frame.code = InternalError)
    => frame.id = line.id

\* C10: health_check never fails: it returns status, timestamp and the
\* number of sessions in the store whatever the host metrics do.
HealthCheckNeverFails ==
    Called(line, "health_check")
    => /\ fault = None
       /\ frame.kind = "result"
       /\ result.status = "healthy"
       /\ result.timestamp = clock
       /\ result.active_sessions = Len(sessions)


RECURSIVE SumTo(_, _)
\* f[1] + ... + f[n]
SumTo(f, n) == IF n = 0 THEN 0 ELSE f[n] + SumTo(f, n - 1)

\* C13: get_summary answers, for the store it ran on, total_sessions and
\* active_sessions equal to the number of sessions, total_commands,
\* total_bytes and total_lines equal to the sums of the three counters over
\* those sessions, and one detail entry per session.
SummarySumsTheStore ==
    (Called(line, "get_summary") /\ fault = None)
    => /\ result.total_sessions = Len(sessions)
       /\ result.active_sessions = Len(sessions)
       /\ result.total_commands
            = SumTo([i \in 1..Len(sessions) |->
                        sessions[i].val.stats.commands_executed],
                    Len(sessions))
       /\ result.total_bytes
            = SumTo([i \in 1..Len(sessions) |->
                        sessions[i].val.stats.bytes_written],
                    Len(sessions))
       /\ result.total_lines
            = SumTo([i \in 1..Len(sessions) |->
                        sessions[i].val.stats.lines_written],
                    Len(sessions))
       /\ [i \in 1..Len(result.session_details) |->
              result.session_details[i].session_id] = Keys(sessions)

\* a summary of two sessions that have executed one command each
SummaryOfTwoSessions ==
    /\ Called(line, "get_summary")
    /\ Len(sessions) = 2
    /\ \A i \in 1..2 : sessions[i].val.stats.commands_executed = 1
    /\ result.total_sessions = 2
    /\ result.total_commands = 2
    /\ result.total_bytes # result.total_lines

\* C16: get_session_stats on a session that has executed no command reports
\* commands_executed, bytes_written and lines_written 0 and a last activity
\* at time 0, which lies before the creation of the session; a session that
\* has executed a command reports a last activity at or after its creation.
FreshSessionReportsNoActivity ==
    \A name \in {"get_session_stats", "get_session"} :
      (CalledWithId(line, name) /\ Has(sessions, line.arguments.session_id))
      => LET stored == Get(sessions, line.arguments.session_id).stats
             seen == result.stats
         IN IF stored.commands_executed = 0
            THEN /\ seen.commands_executed = 0
                 /\ seen.bytes_written = 0
                 /\ seen.lines_written = 0
                 /\ seen.last_activity_seconds = clock
                 /\ seen.last_activity_seconds > seen.uptime_seconds
            ELSE seen.last_activity_seconds <= seen.uptime_seconds

\* get_session_stats on a session whose only command timed out, read after
\* the clock has moved on
FreshSessionRead ==
    /\ CalledWithId(line, "get_session_stats")
    /\ Has(sessions, line.arguments.session_id)
    /\ result.stats.commands_executed = 0
    /\ result.stats.uptime_seconds > 0

\* C17: create_session answers with the description of the session it has
\* stored: the one supplied, or "Session-" + id when none was supplied.
CreatedDescriptionIsStored ==
    (Called(line, "create_session") /\ fault = None)
    => /\ result.description
            = Get(sessions, result.session_id).description
       /\ result.description
            = (IF line.arguments.description # <<>>
               THEN line.arguments.description
               ELSE <<"Session-", result.session_id>>)

\* C19: every record of the store is ACTIVE and stored under its own
\* session_id, and get_session_stats, list_sessions and get_summary report
\* no session as terminated.
StoredSessionsAreActive ==
    /\ \A i \in 1..Len(sessions) :
          /\ sessions[i].val.status = ACTIVE
          /\ sessions[i].val.session_id = sessions[i].key
    /\ \A name \in {"get_session_stats", "get_session"} :
          (CalledWithId(line, name)
             /\ Has(sessions, line.arguments.session_id))
          => result.status = ACTIVE
    /\ Called(line, "list_sessions")
          => \A i \in 1..Len(result) : result[i].status = ACTIVE
    /\ (Called(line, "get_summary") /\ fault = None)
          => \A i \in 1..Len(result.session_details) :
                result.session_details[i].status = ACTIVE

\* a terminate_session that removed one of two sessions
TerminatedOneOfTwo ==
    /\ CalledWithId(line, "terminate_session")
    /\ result.success
    /\ Len(sessions) = 1
    /\ line.arguments.session_id \in issued

\* the tools that only read
ReadTools ==
    {"get_session_stats", "get_session", "list_sessions", "get_summary",
     "read_all_sessions", "health_check"}

\* C20: get_session_stats, get_session, list_sessions, get_summary,
\* read_all_sessions and health_check leave the store as it was, whether
\* the id exists or not; list_sessions and read_all_sessions answer one
\* entry per session of the store, in its order, none for an empty store.
ReadsLeaveStoreAlone ==
    [][ /\ \A name \in ReadTools :
              Called(line', name) => sessions' = sessions
        /\ (Called(line', "list_sessions") /\ fault' = None)
              => [i \in 1..Len(result') |-> result'[i].session_id]
                   = Keys(sessions)
        /\ (Called(line', "read_all_sessions") /\ fault' = None)
              => /\ Keys(result') = Keys(sessions)
                 /\ \A i \in 1..Len(sessions) :
                       result'[i].val.content = sessions[i].val.buffer
      ]_vars

\* a read_all_sessions of two sessions, one of them with output
ReadTwoSessions ==
    /\ Called(line, "read_all_sessions")
    /\ Len(result) = 2
    /\ Len(sessions) = 2
    /\ sessions[1].val.buffer # <<>>


\* the step is an execute_command that succeeded against session_id
Executed(session_id) ==
    /\ CalledWithId(line', "execute_command")
    /\ line'.arguments.session_id = session_id
    /\ fault' = None
    /\ result'.success

\* C18: a successful execute_command adds exactly 1 to the session's
\* commands_executed, replaces its buffer, leaves last_activity at or after
\* created_at, and changes neither another record nor the set of ids; in
\* every other step the commands_executed of a session that stays in the
\* store keeps its value, so that it never decreases and counts the
\* successful executions.
ExecutionCountsOnce ==
    [][ \A sid \in Ids :
          /\ Executed(sid)
             => /\ Keys(sessions') = Keys(sessions)
                /\ Get(sessions', sid).buffer = result'.output
                /\ Get(sessions', sid).stats.last_activity
                     >= Get(sessions', sid).stats.created_at
                /\ \A other \in KeySet(sessions) \ {sid} :
                      Get(sessions', other) = Get(sessions, other)
          /\ (Has(sessions, sid) /\ Has(sessions', sid))
             => Get(sessions', sid).stats.commands_executed
                  = Get(sessions, sid).stats.commands_executed
                    + (IF Executed(sid) THEN 1 ELSE 0)
      ]_vars


\* the handling of the line failed: it was not JSON, not an object, named
\* an unknown method, or raised
Failed(ln, flt, fr) ==
    ln.json # "eof" /\ (flt # None \/ fr.kind = "error")

\* C11: a line whose handling fails leaves the loop reading and the store
\* as it was, the loop stops only at end of input, and after a failed line
\* the server still takes and answers a well-formed request.
FailedLineKeepsServing ==
    /\ [][ /\ Failed(line', fault', frame')
              => (pc' = "reading" /\ sessions' = sessions)
           /\ pc' = "stopped" => line' = EndOfFile ]_vars
    /\ [](Failed(line, fault, frame)
            => /\ pc = "reading"
               /\ ENABLED Ping(DispatchInputs)
               /\ ENABLED CallListSessions(DispatchInputs))

\* a missing session_id answered with an internal error while two sessions
\* are in the store
FailedWithTwoSessions ==
    /\ Called(line, "terminate_session")
    /\ fault = "KeyError"
    /\ frame = ErrorFrame(line.id, InternalError)
    /\ Len(sessions) = 2
    /\ pc = "reading"

\* C12 as stated: an invalid line and notifications/initialized produce no
\* frame; initialize, tools/list, tools/call and ping produce a result
\* frame with the request's id; any other method produces the error -32601
\* with the request's id.
OneResultFramePerCall ==
    /\ line.json = "invalid" => frame = NoFrame
    /\ (line.json = "object" /\ line.method = "notifications/initialized")
          => frame = NoFrame
    /\ (line.json = "object"
          /\ line.method \in {"initialize", "tools/list", "tools/call",
                              "ping"})
          => frame = ResultFrame(line.id)
    /\ (line.json = "object"
          /\ line.method \notin {"initialize", "tools/list", "tools/call",
                                 "ping", "notifications/initialized"})
          => frame = ErrorFrame(line.id, MethodNotFound)

\* C12 amended: as above, except that a tools/call whose handling raises
\* produces the error -32603 with the request's id instead of a result.
OneFramePerRequest ==
    /\ line.json = "invalid" => frame = NoFrame
    /\ (line.json = "object" /\ line.method = "notifications/initialized")
          => frame = NoFrame
    /\ (line.json = "object"
          /\ line.method \in {"initialize", "tools/list", "ping"})
          => frame = ResultFrame(line.id)
    /\ (line.json = "object" /\ line.method = "tools/call")
          => frame = (IF fault = None THEN ResultFrame(line.id)
                      ELSE ErrorFrame(line.id, InternalError))
    /\ (line.json = "object"
          /\ line.method \notin {"initialize", "tools/list", "tools/call",
                                 "ping", "notifications/initialized"})
          => frame = ErrorFrame(line.id, MethodNotFound)

\* a tools/call without session_id answered with the error -32603 under
\* its own id, after an earlier request with another id
MissingArgumentAnswered ==
    /\ Called(line, "get_session_stats")
    /\ fault = "KeyError"
    /\ line.id = "r2"
    /\ frame = ErrorFrame("r2", InternalError)
    /\ Len(sessions) > 0


\* C14: while a command is executing against a session, that is from the
\* call of the runner until it returns or times out, the server can take
\* and answer a request that creates, lists or terminates a session.
ExecutionDoesNotBlock ==
    pc = "running"
      => /\ ENABLED CallCreateSession(StepInputs)
         /\ ENABLED CallListSessions(StepInputs)
         /\ ENABLED CallTerminateSession(StepInputs)

\* the tools through which a record is read
RecordReaders ==
    {"get_session_stats", "get_session", "list_sessions", "get_summary",
     "read_all_sessions"}

\* the counters and the output of the record belong to the same command:
\* none before the first execution, and afterwards the output formatted at
\* last_activity together with its length and its number of lines
RecordIsWhole(session) ==
    LET stats == session.stats
    IN IF stats.commands_executed = 0
       THEN /\ session.buffer = <<>>
            /\ stats.bytes_written = 0
            /\ stats.lines_written = 0
            /\ stats.last_activity = 0
       ELSE /\ \E command \in Commands :
                 \E run \in {r \in RunOutcomes : r.kind = "completed"} :
                   session.buffer
                     = FormatOutput(command, run, stats.last_activity)
            /\ stats.bytes_written = Len(session.buffer)
            /\ stats.lines_written = Count(session.buffer, "\n") + 1

\* C15: a request that reads records (get_session_stats, get_session,
\* list_sessions, get_summary, read_all_sessions) is handled only while no
\* execute_command is between its updates, so every record it reads is
\* whole, and the counters get_session_stats returns are those of that
\* whole record.
ReadsSeeWholeRecords ==
    (line.json = "object" /\ line.method = "tools/call"
       /\ line.name \in RecordReaders)
      => /\ pc = "reading"
         /\ \A i \in 1..Len(sessions) : RecordIsWhole(sessions[i].val)
         /\ (CalledWithId(line, "get_session_stats")
               /\ Has(sessions, line.arguments.session_id))
              => LET stats == Get(sessions, line.arguments.session_id).stats
                 IN /\ result.stats.commands_executed
                         = stats.commands_executed
                    /\ result.stats.bytes_written = stats.bytes_written
                    /\ result.stats.lines_written = stats.lines_written

\* get_session_stats reads a session after its second command, executed
\* later than its first
ReadAfterSecondCommand ==
    /\ CalledWithId(line, "get_session_stats")
    /\ Has(sessions, line.arguments.session_id)
    /\ result.stats.commands_executed = 2
    /\ Get(sessions, line.arguments.session_id).stats.last_activity
         > StartTime

====
